---- MODULE Spec2Model ----
(***************************************************************************)
(* MatEnsemble dispatch core: SuperFluxManager.poolexecutor, the           *)
(* submission strategies (CPU-affine, GPU-affine, dynopro) and the         *)
(* future-processing strategies (non-adaptive, adaptive).                  *)
(*                                                                         *)
(* The repository holds two AdaptiveStrategy modules:                      *)
(*   matensemble/strategy/adaptive_strategy.py      (package of manager.py)*)
(*   src/matensemble/strategy/adaptive_strategy.py  (src layout)           *)
(* strategy_pkg selects which one AdaptiveStrategy resolves to.            *)
(***************************************************************************)
EXTENDS Integers, Sequences, FiniteSets, TLC

\* ---------------------------------------------------------------- bounds
NTasks == 2          \* length of gen_task_list
MaxTpj == 2          \* largest entry of tasks_per_job
MaxCores == 2        \* largest free core count the probe reports
MaxGpus == 1         \* largest free GPU count the probe reports
MaxFreq == 2         \* the write_restart_freq above 1 that is tried

\* Python None for optional numeric parameters
None == -1

\* Task ids, pairwise distinct; args and dirs aligned by position
gen_task_list == [i \in 1..NTasks |-> i]
ArgOf(i) == 10 + i
DirOf(i) == 20 + i
task_arg_list == [i \in 1..NTasks |-> ArgOf(i)]
task_dir_list == [i \in 1..NTasks |-> DirOf(i)]

\* How a finished future answers result()/exception()
Outcomes == {"ok", "nonzero", "raise", "cancelled"}

\* tasks_per_job given as a list: shorter than or as long as the task list
\* with all entries 1 (the constructor's default) or MaxTpj at one position,
\* or one entry longer with all entries 1
TpjLists ==
  {[i \in 1..n |-> IF i = k THEN MaxTpj ELSE 1] :
     n \in (NTasks - 1)..NTasks, k \in 0..NTasks}
    \cup {[i \in 1..(NTasks + 1) |-> 1]}

ToSet(s) == {s[i] : i \in 1..Len(s)}

VARIABLES
  \* constructor / poolexecutor parameters
  dynopro, adaptive, strategy_pkg, cores_per_task, gpus_per_task,
  nnodes, gpus_per_node, write_restart_freq, dirs_given, tpj_list,
  restart_filename, submis_strat, fut_proc_strat,
  \* manager state
  pending_tasks, running_tasks, completed_tasks, failed_tasks, futures,
  tasks_per_job, free_cores, free_gpus,
  \* poolexecutor locals shared with the strategies
  gen_task_arg_list, gen_task_dir_list,
  \* process_futures local: the batch returned by the bounded wait
  completed,
  \* sinks: status file, restart files, jobs handed to an executor
  status, restart_file, submit_log, warnings,
  \* the running iteration: the cores its first probe returned and the cores
  \* of the jobs submitted in it since
  iteration,
  \* the FluxExecutor of `with flux.job.FluxExecutor() as executor`:
  \* "none" before poolexecutor enters the block, "open" inside, "closed"
  \* after its __exit__
  scoped_executor,
  \* control
  pc, error

params == <<dynopro, adaptive, strategy_pkg, cores_per_task, gpus_per_task,
            nnodes, gpus_per_node, write_restart_freq, dirs_given, tpj_list,
            restart_filename, submis_strat, fut_proc_strat>>
mstate == <<pending_tasks, running_tasks, completed_tasks, failed_tasks,
            futures, tasks_per_job, free_cores, free_gpus,
            gen_task_arg_list, gen_task_dir_list, status, restart_file,
            submit_log, warnings, iteration, scoped_executor, error>>
vars == <<params, mstate, completed, pc>>

\* ------------------------------------------------ strategy resolution
\* submis_strat / fut_proc_strat when no strategy object is passed
NoOverride == "None"

\* variant of submission_strategy: the GPU test comes before the dynopro flag
submission_strategy_gpu_first ==
  IF submis_strat # NoOverride THEN submis_strat
  ELSE IF gpus_per_task > 0 THEN "GPUAffine"
  ELSE IF dynopro THEN "Dynopro"
  ELSE "CPUAffine"

submission_strategy ==
  IF submis_strat # NoOverride THEN submis_strat
  ELSE IF dynopro THEN "Dynopro"
  ELSE IF gpus_per_task > 0 THEN "GPUAffine"
  ELSE "CPUAffine"

\* `if fut_proc_strat:`; a strategy object is truthy
future_processing_strategy ==
  IF fut_proc_strat # NoOverride THEN fut_proc_strat
  ELSE IF adaptive THEN "Adaptive"
  ELSE "NonAdaptive"

\* ------------------------------------------------ the manager as a record
M == [pending_tasks |-> pending_tasks, running_tasks |-> running_tasks,
      completed_tasks |-> completed_tasks, failed_tasks |-> failed_tasks,
      futures |-> futures, tasks_per_job |-> tasks_per_job,
      free_cores |-> free_cores, free_gpus |-> free_gpus,
      gen_task_arg_list |-> gen_task_arg_list,
      gen_task_dir_list |-> gen_task_dir_list,
      status |-> status, restart_file |-> restart_file,
      submit_log |-> submit_log, warnings |-> warnings,
      iteration |-> iteration, scoped_executor |-> scoped_executor,
      error |-> error]

Install(m) ==
  /\ pending_tasks' = m.pending_tasks
  /\ running_tasks' = m.running_tasks
  /\ completed_tasks' = m.completed_tasks
  /\ failed_tasks' = m.failed_tasks
  /\ futures' = m.futures
  /\ tasks_per_job' = m.tasks_per_job
  /\ free_cores' = m.free_cores
  /\ free_gpus' = m.free_gpus
  /\ gen_task_arg_list' = m.gen_task_arg_list
  /\ gen_task_dir_list' = m.gen_task_dir_list
  /\ status' = m.status
  /\ restart_file' = m.restart_file
  /\ submit_log' = m.submit_log
  /\ warnings' = m.warnings
  /\ iteration' = m.iteration
  /\ scoped_executor' = m.scoped_executor
  /\ error' = m.error

\* __exit__ of the with block: shuts the executor down if the block was
\* entered
Exit(m) ==
  [m EXCEPT !.scoped_executor = IF @ = "open" THEN "closed" ELSE @]

\* an exception that leaves poolexecutor without passing through __exit__
Raise_without_exit(m, exc) == [m EXCEPT !.error = exc]

\* an exception nothing catches: it propagates out of the constructor, or
\* out of poolexecutor through the with block
Raise(m, exc) == Exit([m EXCEPT !.error = exc])

\* no iteration is running: poolexecutor has not probed since the last
\* evaluation of done
NoIteration == [probe |-> None, spent |-> 0]

\* the iteration record after the job of fut went to an executor
Spend(it, fut) ==
  [it EXCEPT !.spent = @ + fut.job_spec.num_tasks * cores_per_task]

\* check_resources: c, g are what the resource manager answers
check_resources(m, c, g) == [m EXCEPT !.free_cores = c, !.free_gpus = g]

\* log_progress: StatusWriter.update with the four counters and the mirrors
log_progress(m) ==
  [m EXCEPT !.status = [pending |-> Len(m.pending_tasks),
                        running |-> Cardinality(m.running_tasks),
                        completed |-> Len(m.completed_tasks),
                        failed |-> Len(m.failed_tasks),
                        free_cores |-> m.free_cores,
                        free_gpus |-> m.free_gpus]]

\* ------------------------------------------------ Fluxlet
\* Paths are sequences of components; an absolute path starts with "/".
\* NoPath stands for an absent (None) path argument.
NoPath == <<>>
is_absolute(p) == Len(p) > 0 /\ p[1] = "/"

\* os.getcwd() of the process that runs the manager, and paths.out_dir
\* (<cwd>/<job id>_matensemble_workflow/out)
launch_dir == <<"/", "launch">>
out_dir == launch_dir \o <<"workflow", "out">>

\* the directory string a caller put in task_dir_list: the directories of
\* odd entries are absolute, those of even entries relative
PathOf(d) ==
  IF d = None THEN NoPath
  ELSE IF d % 2 = 1 THEN <<"/", "scratch", ToString(d)>>
  ELSE <<"dirs", ToString(d)>>

\* Path.resolve(): an absolute path without symlinks or dots stays as it
\* is, a relative one is taken from the current directory
resolve(p) == IF is_absolute(p) THEN p ELSE launch_dir \o p

\* variant of resolve_workdir that joins every task_directory to the root,
\* absolute ones included
resolve_workdir_joins_all(task, task_directory, base_out_dir, launch) ==
  LET root == IF base_out_dir # NoPath THEN base_out_dir ELSE launch
  IN resolve(IF task_directory # NoPath
             THEN root \o (IF is_absolute(task_directory)
                           THEN Tail(task_directory) ELSE task_directory)
             ELSE root \o <<ToString(task)>>)

\* resolve_workdir: the path that is created (mkdir -p) and returned
resolve_workdir(task, task_directory, base_out_dir, launch) ==
  LET root == IF base_out_dir # NoPath THEN base_out_dir ELSE launch
  IN resolve(IF task_directory # NoPath
             THEN IF is_absolute(task_directory)
                  THEN task_directory
                  ELSE root \o task_directory
             ELSE root \o <<ToString(task)>>)

\* what a builder does after resolve_workdir returned: mkdir happened inside
\* resolve_workdir, then the job spec with cwd = workdir goes to the executor
SubmitCalls(workdir) ==
  <<[call |-> "mkdir", path |-> workdir],
    [call |-> "executor.submit", cwd |-> workdir]>>

\* job_submit: homogeneous builder; the future is annotated with task,
\* job_spec and workdir after executor.submit
job_submit(executor, task, tpj, task_args, task_dir, base_out_dir) ==
  LET workdir == resolve_workdir(task, PathOf(task_dir),
                                 IF base_out_dir THEN out_dir ELSE NoPath,
                                 launch_dir)
  IN [task |-> task,
      job_spec |-> [builder |-> "from_command", num_tasks |-> tpj,
                    args |-> task_args, task_dir |-> task_dir,
                    base_out_dir |-> base_out_dir, executor |-> executor,
                    cwd |-> workdir],
      workdir |-> workdir,
      calls |-> SubmitCalls(workdir)]

\* hetero_job_submit: per-resource builder; the strategy passes no
\* base_out_dir
hetero_job_submit(executor, task, tpj, task_args, task_dir) ==
  LET workdir == resolve_workdir(task, PathOf(task_dir), NoPath, launch_dir)
  IN [task |-> task,
      job_spec |-> [builder |-> "per_resource", num_tasks |-> tpj,
                    args |-> task_args, task_dir |-> task_dir,
                    base_out_dir |-> FALSE, executor |-> executor,
                    cwd |-> workdir],
      workdir |-> workdir,
      calls |-> SubmitCalls(workdir)]

\* popleft of the dirs deque when one was supplied, else None
PopDir(m) ==
  IF dirs_given THEN Head(m.gen_task_dir_list) ELSE None
RestDirs(m) ==
  IF dirs_given THEN Tail(m.gen_task_dir_list) ELSE m.gen_task_dir_list

\* ------------------------------------------------ restart snapshot
\* variant of create_restart_file: the running tasks are not recorded
create_restart_file_omits_running(m) ==
  LET name == Len(m.completed_tasks)
      task_log == [Completed |-> m.completed_tasks,
                   Running |-> {},
                   Pending |-> m.pending_tasks,
                   Failed |-> m.failed_tasks]
  IN [m EXCEPT !.restart_file = [name |-> name, task_log |-> task_log]]

\* restart_file is the file written last, restart_<name>.dat
create_restart_file(m) ==
  LET name == Len(m.completed_tasks)
      task_log == [Completed |-> m.completed_tasks,
                   Running |-> m.running_tasks,
                   Pending |-> m.pending_tasks,
                   Failed |-> m.failed_tasks]
  IN [m EXCEPT !.restart_file = [name |-> name, task_log |-> task_log]]

NoFile == [name |-> None, task_log |-> <<>>]

NoStatus == [pending |-> None, running |-> None, completed |-> None,
             failed |-> None, free_cores |-> None, free_gpus |-> None]

\* the restart file on disk with its content damaged: bytes that pickle.load
\* cannot decode
Unreadable == [bytes |-> "truncated"]

\* the keys of the pickled task_log
TaskLogKeys == {"Completed", "Running", "Pending", "Failed"}

\* a pickled dict that lacks key k
WithoutKey(task_log, k) ==
  [x \in (DOMAIN task_log) \ {k} |-> task_log[x]]

\* variant of WarnAndRaise: the warning is logged and the exception is
\* swallowed
WarnOnly(m, exc) == [m EXCEPT !.warnings = Append(@, exc)]

\* logger.warning("%s", e); raise e
WarnAndRaise(m, exc) ==
  Raise([m EXCEPT !.warnings = Append(@, exc)], exc)

\* variant of load_restart: the Failed key is not read back
load_restart_skips_failed(m, filename, file) ==
  IF filename = None \/ file.name # filename THEN m
  ELSE [m EXCEPT !.completed_tasks = file.task_log["Completed"],
                 !.running_tasks = file.task_log["Running"],
                 !.pending_tasks = file.task_log["Pending"]]

\* load_restart(filename): file is what is on disk under that name.  The
\* four assignments run in order, so a missing key leaves the earlier ones
\* done.
load_restart(m, filename, file) ==
  IF filename = None \/ file.name # filename THEN m
  ELSE LET task_log == file.task_log
           keys == DOMAIN task_log
           m1 == [m EXCEPT !.completed_tasks = task_log["Completed"]]
           m2 == [m1 EXCEPT !.running_tasks = task_log["Running"]]
           m3 == [m2 EXCEPT !.pending_tasks = task_log["Pending"]]
           m4 == [m3 EXCEPT !.failed_tasks = task_log["Failed"]]
       IN IF "bytes" \in keys THEN WarnAndRaise(m, "UnpicklingError")
          ELSE IF "Completed" \notin keys THEN WarnAndRaise(m, "KeyError")
          ELSE IF "Running" \notin keys THEN WarnAndRaise(m1, "KeyError")
          ELSE IF "Pending" \notin keys THEN WarnAndRaise(m2, "KeyError")
          ELSE IF "Failed" \notin keys THEN WarnAndRaise(m3, "KeyError")
          ELSE m4

\* poolexecutor enters the with block, unless the constructor raised
Enter(m) ==
  IF m.error = "none" THEN [m EXCEPT !.scoped_executor = "open"] ELSE m

\* SuperFluxManager.__init__ followed by the locals poolexecutor sets up:
\* disk is the restart file found on disk, filename the restart_filename
\* argument
Construct(filename, disk) ==
  Enter(load_restart(
    [pending_tasks |-> gen_task_list, running_tasks |-> {},
     completed_tasks |-> <<>>, failed_tasks |-> <<>>,
     futures |-> {}, tasks_per_job |-> tpj_list,
     free_cores |-> None, free_gpus |-> None,
     gen_task_arg_list |-> task_arg_list,
     gen_task_dir_list |-> (IF dirs_given THEN task_dir_list ELSE <<>>),
     status |-> NoStatus, restart_file |-> disk,
     submit_log |-> <<>>, warnings |-> <<>>, iteration |-> NoIteration,
     scoped_executor |-> "none", error |-> "none"],
    filename, disk))

\* ------------------------------------------------ submission strategies
\* variant of CPUAffine_admit: admits when any queued footprint fits, not
\* only the head's (backfill)
CPUAffine_admit_any_fits(m) ==
  /\ Len(m.tasks_per_job) > 0
  /\ \E i \in 1..Len(m.tasks_per_job) :
       m.free_cores >= m.tasks_per_job[i] * cores_per_task
  /\ Len(m.pending_tasks) > 0

\* CPUAffineStrategy.submit_until_ooresources: the while condition
CPUAffine_admit(m) ==
  /\ Len(m.tasks_per_job) > 0
  /\ m.free_cores >= Head(m.tasks_per_job) * cores_per_task
  /\ Len(m.pending_tasks) > 0

\* variant of CPUAffine_submit_one: pending_tasks.pop() instead of popleft()
CPUAffine_submit_one_pops_right(m) ==
  LET cur_tasks_per_job == Head(m.tasks_per_job)
      needed_cores == cur_tasks_per_job * cores_per_task
      cur_task == m.pending_tasks[Len(m.pending_tasks)]
      fut == job_submit("scoped", cur_task, cur_tasks_per_job,
                        Head(m.gen_task_arg_list), PopDir(m), TRUE)
  IN [m EXCEPT !.pending_tasks = SubSeq(@, 1, Len(@) - 1),
               !.gen_task_arg_list = Tail(@),
               !.gen_task_dir_list = RestDirs(m),
               !.futures = @ \cup {fut},
               !.iteration = Spend(@, fut),
               !.submit_log = Append(@, fut),
               !.running_tasks = @ \cup {cur_task},
               !.tasks_per_job = Tail(@),
               !.free_cores = @ - needed_cores]

\* CPUAffineStrategy.submit_until_ooresources: one pass of the while body
CPUAffine_submit_one(m) ==
  LET cur_tasks_per_job == Head(m.tasks_per_job)
      needed_cores == cur_tasks_per_job * cores_per_task
      cur_task == Head(m.pending_tasks)
      fut == job_submit("scoped", cur_task, cur_tasks_per_job,
                        Head(m.gen_task_arg_list), PopDir(m), TRUE)
  IN [m EXCEPT !.pending_tasks = Tail(@),
               !.gen_task_arg_list = Tail(@),
               !.gen_task_dir_list = RestDirs(m),
               !.futures = @ \cup {fut},
               !.iteration = Spend(@, fut),
               !.submit_log = Append(@, fut),
               !.running_tasks = @ \cup {cur_task},
               !.tasks_per_job = Tail(@),
               !.free_cores = @ - needed_cores]

\* GPUAffineStrategy (gpu_affine_strategy.py is not in the source tree)
GPUAffine_admit(m) ==
  /\ Len(m.tasks_per_job) > 0
  /\ m.free_cores >= Head(m.tasks_per_job) * cores_per_task
  /\ m.free_gpus >= Head(m.tasks_per_job) * gpus_per_task
  /\ Len(m.pending_tasks) > 0

GPUAffine_submit_one(m) ==
  LET cur_tasks_per_job == Head(m.tasks_per_job)
      cur_task == Head(m.pending_tasks)
      fut == job_submit("scoped", cur_task, cur_tasks_per_job,
                        Head(m.gen_task_arg_list), PopDir(m), TRUE)
  IN [m EXCEPT !.pending_tasks = Tail(@),
               !.gen_task_arg_list = Tail(@),
               !.gen_task_dir_list = RestDirs(m),
               !.futures = @ \cup {fut},
               !.iteration = Spend(@, fut),
               !.submit_log = Append(@, fut),
               !.running_tasks = @ \cup {cur_task},
               !.tasks_per_job = Tail(@),
               !.free_cores = @ - cur_tasks_per_job * cores_per_task,
               !.free_gpus = @ - cur_tasks_per_job * gpus_per_task]

\* a while condition that does not look at free_cores
Dynopro_admit_ignores_cores(m) ==
  /\ Len(m.tasks_per_job) > 0
  /\ Len(m.pending_tasks) > 0

\* DynoproStrategy.submit_until_ooresources: the while condition
Dynopro_admit(m) ==
  /\ Len(m.tasks_per_job) > 0
  /\ m.free_cores >= Head(m.tasks_per_job) * cores_per_task
  /\ Len(m.pending_tasks) > 0

\* a submit that validates nnodes / gpus_per_node only after the job went to
\* the executor
Dynopro_submit_one_checks_late(m, c, g) ==
  LET cur_task == Head(m.pending_tasks)
      probed == log_progress(check_resources(m, c, g))
      popped == [probed EXCEPT !.pending_tasks = Tail(@),
                               !.gen_task_arg_list = Tail(@),
                               !.gen_task_dir_list = RestDirs(m)]
      fut == hetero_job_submit("scoped", cur_task, Head(m.tasks_per_job),
                               Head(m.gen_task_arg_list), PopDir(m))
      added == [popped EXCEPT !.futures = @ \cup {fut},
                              !.iteration = Spend(@, fut),
                              !.submit_log = Append(@, fut),
                              !.running_tasks = @ \cup {cur_task}]
  IN IF nnodes = None \/ gpus_per_node = None
     THEN Raise(added, "ValueError")
     ELSE [log_progress(added) EXCEPT !.tasks_per_job = Tail(@)]

\* DynoproStrategy.submit_until_ooresources: one pass of the while body.
\* c, g: what check_resources reads (the two probes of one pass are taken as
\* one answer). submit raises ValueError after pending/args/dirs were popped.
Dynopro_submit_one(m, c, g) ==
  LET cur_task == Head(m.pending_tasks)
      probed == log_progress(check_resources(m, c, g))
      popped == [probed EXCEPT !.pending_tasks = Tail(@),
                               !.gen_task_arg_list = Tail(@),
                               !.gen_task_dir_list = RestDirs(m)]
      fut == hetero_job_submit("scoped", cur_task, Head(m.tasks_per_job),
                               Head(m.gen_task_arg_list), PopDir(m))
      added == [popped EXCEPT !.futures = @ \cup {fut},
                              !.iteration = Spend(@, fut),
                              !.submit_log = Append(@, fut),
                              !.running_tasks = @ \cup {cur_task}]
  IN IF nnodes = None \/ gpus_per_node = None
     THEN Raise(popped, "ValueError")
     ELSE [log_progress(added) EXCEPT !.tasks_per_job = Tail(@)]

\* ------------------------------------------------ processing strategies
AppendFailed(m, fut) ==
  [m EXCEPT !.failed_tasks = Append(@, <<fut.task, fut.job_spec>>)]

AppendCompleted(m, fut) ==
  [m EXCEPT !.completed_tasks = Append(@, fut.task)]

RemoveRunning(m, fut) ==
  [m EXCEPT !.running_tasks = @ \ {fut.task}]

\* the restart cadence test that follows completed_tasks.append
SnapshotIfDue(m) ==
  IF Len(m.completed_tasks) % write_restart_freq = 0
  THEN create_restart_file(m)
  ELSE m

\* variant of NonAdaptive_reap: a cancelled future is only logged, its task
\* goes to neither completed nor failed
NonAdaptive_reap_drops_cancelled(m, fut, o) ==
  IF fut.task \notin m.running_tasks THEN Raise(m, "KeyError")
  ELSE LET removed == RemoveRunning(m, fut)
       IN CASE o = "cancelled" -> removed
            [] o = "raise" -> AppendFailed(removed, fut)
            [] o = "nonzero" -> AppendFailed(removed, fut)
            [] o = "ok" -> SnapshotIfDue(AppendCompleted(removed, fut))

\* variant of NonAdaptive_reap: an exception raised by fut.result() is not
\* caught and leaves process_futures
NonAdaptive_reap_propagates(m, fut, o) ==
  IF fut.task \notin m.running_tasks THEN Raise(m, "KeyError")
  ELSE LET removed == RemoveRunning(m, fut)
       IN CASE o \in {"raise", "cancelled"} -> Raise(removed, "Exception")
            [] o = "nonzero" -> AppendFailed(removed, fut)
            [] o = "ok" -> SnapshotIfDue(AppendCompleted(removed, fut))

\* variant of NonAdaptive_reap: a success also consumes the head entry of
\* tasks_per_job
NonAdaptive_reap_pops_tpj(m, fut, o) ==
  IF fut.task \notin m.running_tasks THEN Raise(m, "KeyError")
  ELSE LET removed == RemoveRunning(m, fut)
       IN CASE o \in {"raise", "cancelled"} -> AppendFailed(removed, fut)
            [] o = "nonzero" -> AppendFailed(removed, fut)
            [] o = "ok" ->
                 LET done == SnapshotIfDue(AppendCompleted(removed, fut))
                 IN IF Len(done.tasks_per_job) > 0
                    THEN [done EXCEPT !.tasks_per_job = Tail(@)]
                    ELSE done

\* NonAdaptiveStrategy.process_futures: the body of `for fut in completed`
\* for one future whose result() answers o
NonAdaptive_reap(m, fut, o) ==
  IF fut.task \notin m.running_tasks THEN Raise(m, "KeyError")
  ELSE LET removed == RemoveRunning(m, fut)
       IN CASE o \in {"raise", "cancelled"} -> AppendFailed(removed, fut)
            [] o = "nonzero" -> AppendFailed(removed, fut)
            [] o = "ok" -> SnapshotIfDue(AppendCompleted(removed, fut))

\* AdaptiveStrategy.adaptive_submit (src layout)
Adaptive_adaptive_submit(m) ==
  IF /\ Len(m.tasks_per_job) > 0
     /\ m.free_cores >= Head(m.tasks_per_job) * cores_per_task
     /\ Len(m.pending_tasks) > 0
  THEN LET cur_tasks_per_job == Head(m.tasks_per_job)
           needed_cores == cur_tasks_per_job * cores_per_task
           cur_task == Head(m.pending_tasks)
           fut == job_submit("scoped", cur_task, cur_tasks_per_job,
                             Head(m.gen_task_arg_list), PopDir(m), TRUE)
       IN [m EXCEPT !.pending_tasks = Tail(@),
                    !.gen_task_arg_list = Tail(@),
                    !.gen_task_dir_list = RestDirs(m),
                    !.futures = @ \cup {fut},
                    !.iteration = Spend(@, fut),
                    !.submit_log = Append(@, fut),
                    !.running_tasks = @ \cup {cur_task},
                    !.tasks_per_job = Tail(@),
                    !.free_cores = @ - needed_cores]
  ELSE m

\* variant of Adaptive_reap: a cancelled future is removed from running and
\* recorded nowhere
Adaptive_reap_drops_cancelled(m, fut, o) ==
  IF fut.task \notin m.running_tasks THEN Raise(m, "KeyError")
  ELSE LET removed == RemoveRunning(m, fut)
       IN CASE o = "cancelled" -> removed
            [] o = "raise" -> AppendFailed(removed, fut)
            [] o = "nonzero" -> AppendFailed(removed, fut)
            [] o = "ok" ->
                 SnapshotIfDue(
                   Adaptive_adaptive_submit(AppendCompleted(removed, fut)))

\* AdaptiveStrategy.process_futures (src layout): the body of the for loop
Adaptive_reap(m, fut, o) ==
  IF fut.task \notin m.running_tasks THEN Raise(m, "KeyError")
  ELSE LET removed == RemoveRunning(m, fut)
       IN CASE o \in {"raise", "cancelled"} -> AppendFailed(removed, fut)
            [] o = "nonzero" -> AppendFailed(removed, fut)
            [] o = "ok" ->
                 SnapshotIfDue(
                   Adaptive_adaptive_submit(AppendCompleted(removed, fut)))

\* AdaptiveStrategy.adaptive_submit (package of manager.py).
\* A non-empty tasks_per_job deque is truthy, so tasks_per_job is 1 and the
\* deque is not popped; an empty one is popped (IndexError).  running_tasks
\* is a set, so running_tasks.append raises AttributeError after the job was
\* handed to a fresh FluxExecutor and its future added.
FlatAdaptive_adaptive_submit(m, c, g) ==
  IF Len(m.tasks_per_job) = 0 THEN Raise(m, "IndexError")
  ELSE IF m.free_cores >= 1 * cores_per_task /\ Len(m.pending_tasks) > 0
  THEN LET probed == log_progress(check_resources(m, c, g))
           cur_task == Head(m.pending_tasks)
           fut == job_submit("fresh", cur_task, 1,
                             Head(m.gen_task_arg_list), PopDir(m), FALSE)
       IN Raise([probed EXCEPT !.pending_tasks = Tail(@),
                               !.gen_task_arg_list = Tail(@),
                               !.gen_task_dir_list = RestDirs(m),
                               !.futures = @ \cup {fut},
                               !.iteration = Spend(@, fut),
                               !.submit_log = Append(@, fut)],
                "AttributeError")
  ELSE m

\* AdaptiveStrategy.process_futures (package of manager.py): the body of the
\* for loop.  The two failure branches `continue` before running_tasks.remove
\* and before adaptive_submit; a cancelled future raises in fut.exception(),
\* is printed, and adaptive_submit follows.
FlatAdaptive_reap(m, fut, o, c, g) ==
  CASE o = "cancelled" -> FlatAdaptive_adaptive_submit(m, c, g)
    [] o = "raise" -> AppendFailed(m, fut)
    [] o = "nonzero" -> AppendFailed(m, fut)
    [] o = "ok" ->
         IF fut.task \notin m.running_tasks
         THEN Raise(AppendCompleted(m, fut), "KeyError")
         ELSE FlatAdaptive_adaptive_submit(
                RemoveRunning(AppendCompleted(m, fut), fut), c, g)

\* ------------------------------------------------ initial state
HeteroParams ==
  {<<None, None>>, <<1, None>>, <<None, 1>>, <<1, 1>>}

\* DynoproStrategy.submit rejects the configuration
InvalidConfig == dynopro /\ (nnodes = None \/ gpus_per_node = None)

Init ==
  /\ dynopro \in BOOLEAN
  /\ adaptive \in BOOLEAN
  /\ strategy_pkg \in (IF adaptive THEN {"matensemble", "src/matensemble"}
                       ELSE {"matensemble"})
  /\ cores_per_task = 1
  /\ gpus_per_task \in (IF dynopro THEN {0} ELSE 0..1)
  /\ \E h \in (IF dynopro THEN HeteroParams ELSE {<<None, None>>}) :
       nnodes = h[1] /\ gpus_per_node = h[2]
  /\ write_restart_freq \in {1, MaxFreq}
  /\ dirs_given \in BOOLEAN
  /\ pending_tasks = gen_task_list
  /\ running_tasks = {}
  /\ completed_tasks = <<>>
  /\ failed_tasks = <<>>
  /\ futures = {}
  /\ tpj_list \in TpjLists
  /\ tasks_per_job = tpj_list
  /\ free_cores = None
  /\ free_gpus = None
  /\ gen_task_arg_list = task_arg_list
  /\ gen_task_dir_list = (IF dirs_given THEN task_dir_list ELSE <<>>)
  /\ completed = {}
  /\ status = NoStatus
  /\ restart_file = NoFile
  /\ submit_log = <<>>
  /\ warnings = <<>>
  /\ iteration = NoIteration
  /\ scoped_executor = "open"
  /\ restart_filename = None
  /\ submis_strat = NoOverride
  /\ fut_proc_strat = NoOverride
  /\ pc = "test"
  /\ error = "none"

\* ------------------------------------------------ poolexecutor
\* What the resource manager can answer for free.ncores and free.ngpus.
\* No job of a run with gpus_per_task = 0 takes a GPU: its probe sees the
\* GPUs of the allocation all free.
\* The answers are drawn from the ends of the range and from the footprint
\* of one single-task job: nothing free, one core free, everything free.
ProbeCores == {0, 1, MaxCores}
ProbeGpus == IF gpus_per_task > 0 THEN {0, MaxGpus} ELSE {MaxGpus}

\* a loop that runs its body once before it first evaluates done
LoopTest_body_first ==
  /\ pc = "test"
  /\ LET done == free_cores # None /\ Len(pending_tasks) = 0
                   /\ running_tasks = {}
     IN /\ pc' = (IF done THEN "returned" ELSE "check_resources")
        /\ Install(IF done THEN Exit(M) ELSE M)
  /\ UNCHANGED <<params, completed>>

\* done = len(pending_tasks) == 0 and len(running_tasks) == 0
\* when done, the while loop is skipped or left and the with block exits
LoopTest ==
  /\ pc = "test"
  /\ LET done == Len(pending_tasks) = 0 /\ running_tasks = {}
     IN /\ pc' = (IF done THEN "returned" ELSE "check_resources")
        /\ Install(IF done THEN Exit(M) ELSE M)
  /\ UNCHANGED <<params, completed>>

\* a loop that probes in its first iteration only and afterwards goes on
\* with the mirror it has
CheckResources_first_only ==
  /\ pc = "check_resources"
  /\ IF free_cores = None
     THEN \E c \in ProbeCores, g \in ProbeGpus :
            Install([check_resources(M, c, g) EXCEPT
                       !.iteration = [probe |-> c, spent |-> 0]])
     ELSE UNCHANGED mstate
  /\ pc' = "log_progress"
  /\ UNCHANGED <<params, completed>>

CheckResources ==
  /\ pc = "check_resources"
  /\ \E c \in ProbeCores, g \in ProbeGpus :
       Install([check_resources(M, c, g) EXCEPT
                  !.iteration = [probe |-> c, spent |-> 0]])
  /\ pc' = "log_progress"
  /\ UNCHANGED <<params, completed>>

LogProgress ==
  /\ pc = "log_progress"
  /\ Install(log_progress(M))
  /\ pc' = "submit"
  /\ UNCHANGED <<params, completed>>

Admit(m) ==
  CASE submission_strategy = "CPUAffine" -> CPUAffine_admit(m)
    [] submission_strategy = "GPUAffine" -> GPUAffine_admit(m)
    [] submission_strategy = "Dynopro" -> Dynopro_admit(m)

CPUAffineSubmit ==
  /\ pc = "submit"
  /\ submission_strategy = "CPUAffine"
  /\ CPUAffine_admit(M)
  /\ Install(CPUAffine_submit_one(M))
  /\ UNCHANGED <<params, completed, pc>>

GPUAffineSubmit ==
  /\ pc = "submit"
  /\ submission_strategy = "GPUAffine"
  /\ GPUAffine_admit(M)
  /\ Install(GPUAffine_submit_one(M))
  /\ UNCHANGED <<params, completed, pc>>

DynoproSubmit ==
  /\ pc = "submit"
  /\ submission_strategy = "Dynopro"
  /\ Dynopro_admit(M)
  /\ \E c \in ProbeCores, g \in ProbeGpus :
       LET m == Dynopro_submit_one(M, c, g)
       IN /\ Install(m)
          /\ pc' = (IF m.error # "none" THEN "raised" ELSE "submit")
  /\ UNCHANGED <<params, completed>>

\* the while condition of submit_until_ooresources is false
SubmitReturn ==
  /\ pc = "submit"
  /\ ~Admit(M)
  /\ pc' = "wait"
  /\ UNCHANGED <<params, mstate, completed>>

\* a finished future: its annotations and what result()/exception() answer
Done(f, o) == [task |-> f.task, job_spec |-> f.job_spec, result |-> o]

\* concurrent.futures.wait(futures, timeout=buffer_time): the futures that
\* are done by the end of the bounded wait, and the rest
Wait ==
  /\ pc = "wait"
  /\ \E done \in SUBSET futures :
       \E res \in [done -> Outcomes] :
         /\ completed' = {Done(f, res[f]) : f \in done}
         /\ Install([M EXCEPT !.futures = @ \ done])
  /\ pc' = "reap"
  /\ UNCHANGED params

NonAdaptiveReap ==
  /\ pc = "reap"
  /\ future_processing_strategy = "NonAdaptive"
  /\ \E fut \in completed :
       LET m == NonAdaptive_reap(M, fut, fut.result)
       IN /\ Install(m)
          /\ completed' = completed \ {fut}
          /\ pc' = (IF m.error # "none" THEN "raised" ELSE "reap")
  /\ UNCHANGED params

AdaptiveReap ==
  /\ pc = "reap"
  /\ future_processing_strategy = "Adaptive"
  /\ strategy_pkg = "src/matensemble"
  /\ \E fut \in completed :
       LET m == Adaptive_reap(M, fut, fut.result)
       IN /\ Install(m)
          /\ completed' = completed \ {fut}
          /\ pc' = (IF m.error # "none" THEN "raised" ELSE "reap")
  /\ UNCHANGED params

FlatAdaptiveReap ==
  /\ pc = "reap"
  /\ future_processing_strategy = "Adaptive"
  /\ strategy_pkg = "matensemble"
  /\ \E fut \in completed, c \in ProbeCores, g \in ProbeGpus :
       LET m == FlatAdaptive_reap(M, fut, fut.result, c, g)
       IN /\ Install(m)
          /\ completed' = completed \ {fut}
          /\ pc' = (IF m.error # "none" THEN "raised" ELSE "reap")
  /\ UNCHANGED params

\* a loop that starts its next iteration without evaluating done
ProcessReturn_skips_test ==
  /\ pc = "reap"
  /\ completed = {}
  /\ Install([M EXCEPT !.iteration = NoIteration])
  /\ pc' = "check_resources"
  /\ UNCHANGED <<params, completed>>

\* the for loop of process_futures is exhausted
ProcessReturn ==
  /\ pc = "reap"
  /\ completed = {}
  /\ Install([M EXCEPT !.iteration = NoIteration])
  /\ pc' = "test"
  /\ UNCHANGED <<params, completed>>

Next ==
  \/ LoopTest
  \/ CheckResources
  \/ LogProgress
  \/ CPUAffineSubmit
  \/ GPUAffineSubmit
  \/ DynoproSubmit
  \/ SubmitReturn
  \/ Wait
  \/ NonAdaptiveReap
  \/ AdaptiveReap
  \/ FlatAdaptiveReap
  \/ ProcessReturn

Spec == Init /\ [][Next]_vars

\* the bounded wait returns at least one finished future
WaitSome == Wait /\ completed' # {}

\* the probe reports the whole allocation free
ProbeAmple ==
  CheckResources /\ free_cores' = MaxCores /\ free_gpus' = MaxGpus

\* The control thread keeps running; every submitted job finishes, so a
\* bounded wait on a non-empty in-flight set eventually returns a future;
\* the probe eventually reports the allocation free.
LiveSpec ==
  /\ Init
  /\ [][Next]_vars
  /\ WF_vars(Next)
  /\ SF_vars(WaitSome)
  /\ SF_vars(ProbeAmple)

\* ------------------------------------------------ observation helpers
InitialTasks == ToSet(gen_task_list)
PendingIds == ToSet(pending_tasks)
CompletedIds == ToSet(completed_tasks)
FailedIds == {failed_tasks[i][1] : i \in 1..Len(failed_tasks)}
FutureTasks == {f.task : f \in futures}
\* the number of the four buckets that hold task id t
BucketsOf(t) ==
  Cardinality({b \in {"pending", "running", "completed", "failed"} :
     \/ b = "pending" /\ t \in PendingIds
     \/ b = "running" /\ t \in running_tasks
     \/ b = "completed" /\ t \in CompletedIds
     \/ b = "failed" /\ t \in FailedIds})
\* between two iterations of the while loop of poolexecutor, or after it
AtLoopBoundary == pc \in {"test", "returned"}
UsesFlatAdaptive ==
  future_processing_strategy = "Adaptive" /\ strategy_pkg = "matensemble"

\* ------------------------------------------------ claims
\* C1: in a fresh run, after every iteration of the poolexecutor loop and at
\* termination, |pending| + |running| + |completed| + |failed| equals the
\* length of the initial task list, for every processing strategy and every
\* mix of job outcomes.
C1_BucketCount ==
  AtLoopBoundary =>
    Len(pending_tasks) + Cardinality(running_tasks)
      + Len(completed_tasks) + Len(failed_tasks) = Len(gen_task_list)

\* C2: at every point of a run each task id is in at most one of pending,
\* running, completed, failed; a task recorded as failed is not in running.
C2_OneBucket ==
  /\ \A t \in InitialTasks : BucketsOf(t) <= 1
  /\ FailedIds \cap running_tasks = {}

\* C3: after every loop iteration the task annotations of the in-flight
\* futures are pairwise distinct and their set is running_tasks; a future the
\* bounded wait returned as completed is in neither.
C3_FuturesMatchRunning ==
  AtLoopBoundary =>
    /\ FutureTasks = running_tasks
    /\ Cardinality(futures) = Cardinality(running_tasks)
    /\ \A t \in CompletedIds \cup FailedIds :
         t \notin running_tasks /\ t \notin FutureTasks

\* C4: whenever poolexecutor returns normally, pending and running are empty
\* and the ids in completed together with the ids in failed are the initial
\* tasks.
C4_Termination ==
  pc = "returned" =>
    /\ pending_tasks = <<>>
    /\ running_tasks = {}
    /\ CompletedIds \cup FailedIds = InitialTasks

\* a normal return after both a success and a failure were reaped
C4_Witness ==
  /\ pc = "returned"
  /\ completed_tasks # <<>>
  /\ failed_tasks # <<>>

\* the free allocation the probe eventually reports is enough for every head
AllocationFits ==
  \A i \in 1..Len(tpj_list) :
    /\ tpj_list[i] * cores_per_task <= MaxCores
    /\ tpj_list[i] * gpus_per_task <= MaxGpus

\* C5: if every submitted job eventually finishes, the probe eventually
\* reports enough free cores and GPUs for each pending head, and tasks_per_job
\* has at least as many entries as there are pending tasks, poolexecutor
\* eventually leaves its loop with pending and running both empty, for both
\* processing strategies and any mix of successful and failed jobs.
C5_Terminates ==
  (Len(tpj_list) >= Len(gen_task_list) /\ AllocationFits /\ ~InvalidConfig) =>
    <>(pc = "returned" /\ pending_tasks = <<>> /\ running_tasks = {})

\* the bucket that holds task id t
WhereIs(t) ==
  IF BucketsOf(t) > 1 THEN "several"
  ELSE IF t \in PendingIds THEN "pending"
  ELSE IF t \in running_tasks THEN "running"
  ELSE IF t \in CompletedIds THEN "completed"
  ELSE IF t \in FailedIds THEN "failed"
  ELSE "none"

\* how often task id t was handed to an executor
TimesSubmitted(t) ==
  Cardinality({k \in 1..Len(submit_log) : submit_log[k].task = t})

\* the future of task id t is reaped by this step
ReapedNow(t) ==
  \E fut \in completed : fut.task = t /\ fut \notin completed'

LifecycleStep(t) ==
  /\ WhereIs(t) = "pending" => WhereIs(t)' \in {"pending", "running"}
  /\ WhereIs(t) = "running" =>
       WhereIs(t)' \in {"running", "completed", "failed"}
  /\ WhereIs(t) = "completed" => WhereIs(t)' = "completed"
  /\ WhereIs(t) = "failed" => WhereIs(t)' = "failed"
  /\ WhereIs(t) \in {"completed", "failed"} =>
       TimesSubmitted(t)' = TimesSubmitted(t)
  /\ TimesSubmitted(t)' <= 1
  /\ ReapedNow(t) => WhereIs(t)' \in {"completed", "failed"}

\* C6: every task moves only along pending -> running -> (completed or
\* failed); it is submitted at most once, reaches exactly one of completed or
\* failed when its future is reaped, and then never leaves that bucket and is
\* never resubmitted.
C6_Lifecycle == [][\A t \in InitialTasks : LifecycleStep(t)]_vars

\* C7: across a whole run, bursts and adaptive refills together, the k-th
\* submission is the task at index k of the initial list.
C7_SubmissionOrder ==
  \A k \in 1..Len(submit_log) : submit_log[k].task = gen_task_list[k]

\* every task was submitted, the last one by a refill inside process_futures
\* after an admission burst
C7_Witness ==
  /\ Len(submit_log) = Len(gen_task_list)
  /\ submit_log[1].job_spec.executor = "scoped"
  /\ submit_log[Len(submit_log)].job_spec.executor = "fresh"

\* the admission predicate of the active submission strategy, for the head
HeadFits ==
  /\ free_cores >= Head(tasks_per_job) * cores_per_task
  /\ submission_strategy = "GPUAffine" =>
       free_gpus >= Head(tasks_per_job) * gpus_per_task

HeadBlocked ==
  /\ pc = "submit"
  /\ Len(pending_tasks) > 0
  /\ Len(tasks_per_job) > 0
  /\ ~HeadFits

\* C8: if the admission predicate fails for the head of the pending queue,
\* submit_until_ooresources submits nothing further in that call, even when a
\* later task would fit, and leaves pending, the args/dirs deques,
\* tasks_per_job and the in-flight set unchanged; when the head does fit it is
\* the head that is submitted, before its successor.
C8_HeadBlocks ==
  [][/\ HeadBlocked =>
          /\ pc' = "wait"
          /\ UNCHANGED <<pending_tasks, gen_task_arg_list, gen_task_dir_list,
                         tasks_per_job, futures, submit_log>>
     /\ (pc = "submit" /\ submit_log' # submit_log) =>
          /\ Len(submit_log') = Len(submit_log) + 1
          /\ submit_log'[Len(submit_log')].task = Head(pending_tasks)]_vars

\* the scenario tasks_per_job = [big, 1] with fewer free cores than the head
\* needs and enough for its successor: the call returned, nothing submitted
C8_Witness ==
  /\ pc = "wait"
  /\ tpj_list = <<MaxTpj, 1>>
  /\ tasks_per_job = tpj_list
  /\ pending_tasks = gen_task_list
  /\ free_cores >= 1 * cores_per_task
  /\ free_cores < MaxTpj * cores_per_task
  /\ submit_log = <<>>
  /\ futures = {}

IndexOf(t) == CHOOSE i \in 1..Len(gen_task_list) : gen_task_list[i] = t

\* C9: after any sequence of submissions the numbers of elements popped from
\* pending, from the args deque, from the dirs deque (when one was supplied)
\* and from tasks_per_job are equal, so the task at initial index i is
\* submitted with args[i], dirs[i] and tasks_per_job[i].
C9_LockStep ==
  LET popped == Len(gen_task_list) - Len(pending_tasks)
  IN /\ Len(task_arg_list) - Len(gen_task_arg_list) = popped
     /\ dirs_given => Len(task_dir_list) - Len(gen_task_dir_list) = popped
     /\ Len(tpj_list) - Len(tasks_per_job) = popped
     /\ \A k \in 1..Len(submit_log) :
          LET i == IndexOf(submit_log[k].task)
              js == submit_log[k].job_spec
          IN /\ js.args = task_arg_list[i]
             /\ dirs_given => js.task_dir = task_dir_list[i]
             /\ js.num_tasks = tpj_list[i]

\* the job spec that was handed to the executor for task id t
SubmittedSpec(t, js) ==
  \E k \in 1..Len(submit_log) :
    submit_log[k].task = t /\ submit_log[k].job_spec = js

ReapStep(fut) ==
  /\ fut.task \notin running_tasks'
  /\ SubmittedSpec(fut.task, fut.job_spec)
  /\ fut.result \in {"raise", "cancelled", "nonzero"} =>
       /\ failed_tasks' = Append(failed_tasks, <<fut.task, fut.job_spec>>)
       /\ completed_tasks' = completed_tasks
  /\ fut.result = "ok" =>
       /\ completed_tasks' = Append(completed_tasks, fut.task)
       /\ failed_tasks' = failed_tasks

\* C10: for every future reaped by process_futures its task id is removed
\* from running; if reading its result raises or the result is a nonzero exit
\* code, (task_id, job_spec) with the submitted job spec is appended to
\* failed; if the result is 0 the task id is appended to completed; exactly
\* one of these happens.
C10_Reap ==
  [][\A fut \in completed : fut \notin completed' => ReapStep(fut)]_vars

\* the future fut of the current batch is classified by this step
Reaped(fut) == fut \in completed /\ fut \notin completed'

\* C11: a future whose result raises or is a nonzero exit code never aborts
\* poolexecutor: the reap records it as failed without raising, the other
\* futures of the same wait batch stay to be classified, and the loop test
\* that follows keeps iterating while pending or running is non-empty.
C11_TaskErrorsDoNotAbort ==
  [][/\ \A fut \in completed :
          (Reaped(fut) /\ fut.result \in {"raise", "nonzero"}) =>
             /\ pc' = "reap"
             /\ error' = "none"
             /\ completed' = completed \ {fut}
             /\ fut.task \in FailedIds'
     /\ (pc = "test" /\ failed_tasks # <<>>
           /\ (pending_tasks # <<>> \/ running_tasks # {})) =>
          pc' = "check_resources"]_vars

\* a failure of the current batch was recorded and futures of the same batch
\* are still to be classified
C11_Witness ==
  /\ pc = "reap"
  /\ error = "none"
  /\ failed_tasks # <<>>
  /\ completed # {}

C13_RefillOnCompletion ==
  [][\A fut \in completed :
       (/\ Reaped(fut) /\ fut.result = "ok"
        /\ adaptive
        /\ submission_strategy = "CPUAffine"
        /\ \A i \in 1..Len(tpj_list) : tpj_list[i] = 1
        /\ Len(tpj_list) >= Len(gen_task_list)
        /\ pending_tasks # <<>>) =>
          /\ Len(submit_log') = Len(submit_log) + 1
          /\ submit_log'[Len(submit_log')].task = Head(pending_tasks)
          /\ pc' = "reap"]_vars

\* a restart file is written by this step (its name, the number of completed
\* tasks, grows with every append to completed)
SnapshotWritten == restart_file' # restart_file

\* C14: inside process_futures a restart snapshot is written exactly when a
\* reap has just appended a task to completed and |completed| mod
\* write_restart_freq = 0; the snapshot holds the buckets as they are then.
C14_SnapshotCadence ==
  [][pc = "reap" =>
       /\ SnapshotWritten <=>
            /\ Len(completed_tasks') = Len(completed_tasks) + 1
            /\ Len(completed_tasks') % write_restart_freq = 0
       /\ SnapshotWritten =>
            /\ restart_file'.task_log.Completed = completed_tasks'
            /\ restart_file'.name = Len(completed_tasks')]_vars

\* ------------------------------------------------ restart
\* what a later process can find on disk where file was written: the file
\* itself, the file cut short, or a pickled dict that lacks one key
DiskFiles(file) ==
  {file, [file EXCEPT !.task_log = Unreadable]}
    \cup {[file EXCEPT !.task_log = WithoutKey(file.task_log, k)] :
            k \in TaskLogKeys}

\* The process is killed after a restart file was written; a new manager is
\* constructed with restart_filename naming that file and poolexecutor is
\* called on it.  The futures of the killed process are gone.
Restart ==
  /\ restart_filename = None
  /\ restart_file # NoFile
  /\ \E disk \in DiskFiles(restart_file) :
       LET m == Construct(restart_file.name, disk)
       IN /\ Install(m)
          /\ pc' = (IF m.error # "none" THEN "raised" ELSE "test")
  /\ restart_filename' = restart_file.name
  /\ completed' = {}
  /\ UNCHANGED <<dynopro, adaptive, strategy_pkg, cores_per_task,
                 gpus_per_task, nnodes, gpus_per_node, write_restart_freq,
                 dirs_given, tpj_list, submis_strat, fut_proc_strat>>

RestartNext == Next \/ Restart

\* the runs that are restarted: one task per job, no dirs, a valid
\* heterogeneous configuration
RestartInit ==
  /\ Init
  /\ tpj_list = [i \in 1..NTasks |-> 1]
  /\ ~dirs_given
  /\ ~InvalidConfig

RestartSpec == RestartInit /\ [][RestartNext]_vars

RestartLiveSpec ==
  /\ RestartInit
  /\ [][RestartNext]_vars
  /\ WF_vars(Next)
  /\ SF_vars(WaitSome)
  /\ SF_vars(ProbeAmple)

\* C15: for every reachable manager state, writing the restart file and
\* loading that file into a newly constructed manager restores completed,
\* running, pending and failed with the same elements in the same order.
C15_RoundTrip ==
  LET written == create_restart_file(M).restart_file
      loaded == Construct(written.name, written)
  IN /\ loaded.error = "none"
     /\ loaded.completed_tasks = completed_tasks
     /\ loaded.running_tasks = running_tasks
     /\ loaded.pending_tasks = pending_tasks
     /\ loaded.failed_tasks = failed_tasks

\* a manager just constructed from a restart file that was written with a
\* task completed and another still running
C15_Witness ==
  /\ restart_filename # None
  /\ pc = "test"
  /\ error = "none"
  /\ submit_log = <<>>
  /\ completed_tasks # <<>>
  /\ running_tasks # {}
  /\ completed_tasks = restart_file.task_log["Completed"]
  /\ running_tasks = restart_file.task_log["Running"]
  /\ pending_tasks = restart_file.task_log["Pending"]
  /\ failed_tasks = restart_file.task_log["Failed"]

\* the run after a restart from the snapshot taken when |completed| equalled
\* write_restart_freq, before it submitted anything
RestartedAtFreq ==
  /\ restart_filename = write_restart_freq
  /\ pc = "test"
  /\ submit_log = <<>>
  /\ Len(tpj_list) >= Len(gen_task_list)
  /\ AllocationFits
  /\ ~InvalidConfig

\* C16: a run restarted from the snapshot taken when |completed| equalled
\* write_restart_freq terminates with every task of the original list in
\* completed, provided no job fails.
C16_RestartCompletes ==
  RestartedAtFreq ~>
    \/ pc = "returned" /\ CompletedIds = InitialTasks
    \/ failed_tasks # <<>>

\* the pickled content decodes into a record with the four keys
Decodable(file) == TaskLogKeys \subseteq DOMAIN file.task_log

\* C17: when the file named by restart_filename exists and cannot be decoded
\* into the four-key record (unreadable bytes or a missing key), load_restart
\* logs a warning and the exception reaches the caller: the constructor does
\* not return a manager and nothing is submitted.
C17_BadFileRaises ==
  (/\ restart_filename # None
   /\ restart_file.name = restart_filename
   /\ ~Decodable(restart_file)) =>
     /\ pc = "raised"
     /\ error \in {"UnpicklingError", "KeyError"}
     /\ warnings = <<error>>
     /\ submit_log = <<>>

\* a manager was constructed on a restart file that lacks the Pending key
C17_Witness ==
  /\ restart_filename # None
  /\ restart_file.name = restart_filename
  /\ "Pending" \notin DOMAIN restart_file.task_log
  /\ "Completed" \in DOMAIN restart_file.task_log
  /\ pc = "raised"
  /\ error = "KeyError"
  /\ warnings = <<"KeyError">>

\* C18: once the tasks_per_job deque is empty while tasks are still pending,
\* no step submits a task, by the admission burst or by the adaptive
\* refill, no error is raised, and the pending tasks stay pending.
C18_ShortTpjStops ==
  [][(tasks_per_job = <<>> /\ pending_tasks # <<>>) =>
        /\ submit_log' = submit_log
        /\ pending_tasks' = pending_tasks
        /\ futures' \subseteq futures
        /\ error' = "none"
        /\ pc' # "raised"]_vars

\* the scenario of C19 in an iteration whose probe reported one free GPU and
\* ample cores
GpuGatingScenario ==
  /\ submission_strategy = "GPUAffine"
  /\ gpus_per_task = 1
  /\ tpj_list = <<1, 1>>
  /\ status.free_gpus = 1
  /\ status.free_cores = MaxCores

\* C19: with gpus_per_task = 1, tasks_per_job = [1,1] and a probe of one
\* free GPU and ample cores, a task is handed to an executor only while the
\* free_gpus mirror of that iteration's probe still shows a free GPU: one
\* submission per iteration, the second task in an iteration whose probe
\* again reported a free GPU.
C19_GpuGating ==
  [][(GpuGatingScenario /\ submit_log' # submit_log) =>
        /\ free_gpus >= Head(tasks_per_job) * gpus_per_task
        /\ status.pending - Len(pending_tasks') <= 1]_vars

\* ------------------------------------------------ strategy overrides
\* the manager attributes are those of record m
StateIs(m) ==
  /\ pending_tasks = m.pending_tasks
  /\ running_tasks = m.running_tasks
  /\ completed_tasks = m.completed_tasks
  /\ failed_tasks = m.failed_tasks
  /\ futures = m.futures
  /\ tasks_per_job = m.tasks_per_job
  /\ free_cores = m.free_cores
  /\ free_gpus = m.free_gpus
  /\ gen_task_arg_list = m.gen_task_arg_list
  /\ gen_task_dir_list = m.gen_task_dir_list
  /\ status = m.status
  /\ restart_file = m.restart_file
  /\ submit_log = m.submit_log
  /\ warnings = m.warnings
  /\ iteration = m.iteration
  /\ scoped_executor = m.scoped_executor
  /\ error = m.error

\* strategy objects a caller can pass as submis_strat / fut_proc_strat
SubmissionOverrides == {NoOverride, "CPUAffine", "GPUAffine", "Dynopro"}
ProcessingOverrides == {NoOverride, "NonAdaptive", "Adaptive"}

\* poolexecutor called with every combination of the two overrides, the
\* dynopro and adaptive flags and gpus_per_task; tasks_per_job = [1], no dirs
OverrideInit ==
  /\ dynopro \in BOOLEAN
  /\ adaptive \in BOOLEAN
  /\ submis_strat \in SubmissionOverrides
  /\ fut_proc_strat \in ProcessingOverrides
  /\ gpus_per_task \in 0..1
  /\ strategy_pkg \in (IF future_processing_strategy = "Adaptive"
                       THEN {"matensemble", "src/matensemble"}
                       ELSE {"matensemble"})
  /\ cores_per_task = 1
  /\ nnodes = 1
  /\ gpus_per_node = 1
  /\ write_restart_freq = 1
  /\ dirs_given = FALSE
  /\ tpj_list = <<1>>
  /\ restart_filename = None
  /\ StateIs(Construct(None, NoFile))
  /\ completed = {}
  /\ pc = "test"

OverrideSpec == OverrideInit /\ [][Next]_vars

\* C20: the submission strategy is the explicit override when one is given,
\* else the heterogeneous one when the dynopro flag is set, else GPU-affine
\* when gpus_per_task > 0, else CPU-affine; the processing strategy is the
\* explicit override when one is given, else adaptive when the adaptive flag
\* is set, else non-adaptive.  Every job of the run is built by the strategy
\* so chosen: the per-resource builder exactly under the heterogeneous one.
C20_StrategyResolution ==
  /\ submis_strat # NoOverride => submission_strategy = submis_strat
  /\ (submis_strat = NoOverride /\ dynopro) =>
       submission_strategy = "Dynopro"
  /\ (submis_strat = NoOverride /\ ~dynopro /\ gpus_per_task > 0) =>
       submission_strategy = "GPUAffine"
  /\ (submis_strat = NoOverride /\ ~dynopro /\ gpus_per_task <= 0) =>
       submission_strategy = "CPUAffine"
  /\ fut_proc_strat # NoOverride =>
       future_processing_strategy = fut_proc_strat
  /\ (fut_proc_strat = NoOverride /\ adaptive) =>
       future_processing_strategy = "Adaptive"
  /\ (fut_proc_strat = NoOverride /\ ~adaptive) =>
       future_processing_strategy = "NonAdaptive"
  /\ \A k \in 1..Len(submit_log) :
       submit_log[k].job_spec.executor = "scoped" =>
         (submit_log[k].job_spec.builder = "per_resource"
            <=> (submis_strat = "Dynopro"
                   \/ (submis_strat = NoOverride /\ dynopro)))

\* both overrides beat the flags: a CPU-affine override with dynopro set and
\* gpus_per_task > 0 built the job, a non-adaptive override with adaptive set
\* reaped it
C20_Witness ==
  /\ submis_strat = "CPUAffine"
  /\ dynopro
  /\ gpus_per_task > 0
  /\ fut_proc_strat = "NonAdaptive"
  /\ adaptive
  /\ submit_log # <<>>
  /\ submit_log[1].job_spec.builder = "from_command"
  /\ completed_tasks # <<>>
  /\ futures = {}

\* ------------------------------------------------ claims C21 - C30

StatusComplete(s) ==
  DOMAIN s = {"pending", "running", "completed", "failed",
              "free_cores", "free_gpus"}

StatusCounters(s) == s.pending + s.running + s.completed + s.failed

C22_StatusFile ==
  status # NoStatus =>
     /\ StatusComplete(status)
     /\ StatusCounters(status) = Cardinality(InitialTasks)

\* C23: with buffer_time = 0 (every bounded wait returns at once with the
\* futures that are already done, possibly none, and no sleep separates two
\* submissions) the bucket sizes still sum to the number of initial tasks
\* after every iteration, and on return every initial task is in completed or
\* in failed.
C23_ZeroBufferTime ==
  /\ pc = "test" =>
       Len(pending_tasks) + Cardinality(running_tasks)
         + Len(completed_tasks) + Len(failed_tasks) = Cardinality(InitialTasks)
  /\ pc = "returned" =>
       \A t \in InitialTasks : t \in CompletedIds \cup FailedIds

\* ------------------------------------------------ a manager without tasks
\* SuperFluxManager(gen_task_list=[], ...) and poolexecutor(task_arg_list=[])
NoTasks(m) ==
  [m EXCEPT !.pending_tasks = <<>>,
            !.gen_task_arg_list = <<>>,
            !.gen_task_dir_list = <<>>]

\* the four buckets are empty
BucketsEmpty ==
  /\ pending_tasks = <<>>
  /\ running_tasks = {}
  /\ completed_tasks = <<>>
  /\ failed_tasks = <<>>

\* poolexecutor is called again on the manager it returned from, with the
\* same arguments: its local deques are built anew from the argument lists
PoolexecutorAgain ==
  /\ pc = "returned"
  /\ Install([M EXCEPT
       !.scoped_executor = "open",
       !.gen_task_arg_list = (IF BucketsEmpty THEN <<>> ELSE task_arg_list),
       !.gen_task_dir_list =
          (IF BucketsEmpty \/ ~dirs_given THEN <<>> ELSE task_dir_list)])
  /\ pc' = "test"
  /\ UNCHANGED <<params, completed>>

\* a manager built without tasks (any tasks_per_job list, [] included), or
\* one built with the task list and tasks_per_job all 1
EmptyInit ==
  /\ dynopro \in BOOLEAN
  /\ adaptive \in BOOLEAN
  /\ strategy_pkg \in (IF adaptive THEN {"matensemble", "src/matensemble"}
                       ELSE {"matensemble"})
  /\ cores_per_task = 1
  /\ gpus_per_task \in (IF dynopro THEN {0} ELSE 0..1)
  /\ \E h \in (IF dynopro THEN HeteroParams ELSE {<<None, None>>}) :
       nnodes = h[1] /\ gpus_per_node = h[2]
  /\ write_restart_freq \in {1, MaxFreq}
  /\ dirs_given \in BOOLEAN
  /\ restart_filename = None
  /\ submis_strat = NoOverride
  /\ fut_proc_strat = NoOverride
  /\ \/ /\ tpj_list \in TpjLists \cup {<<>>}
        /\ StateIs(NoTasks(Construct(None, NoFile)))
     \/ /\ tpj_list = [i \in 1..NTasks |-> 1]
        /\ ~dirs_given
        /\ ~InvalidConfig
        /\ StateIs(Construct(None, NoFile))
  /\ completed = {}
  /\ pc = "test"

EmptyNext == Next \/ PoolexecutorAgain

EmptySpec == EmptyInit /\ [][EmptyNext]_vars

\* C24: poolexecutor on a manager whose pending queue is empty and that
\* loaded no restart state submits nothing, writes no restart snapshot (and
\* no status, and takes no probe), leaves the four buckets empty and
\* returns; a second call leaves the manager in the same state.
C24_EmptyRun ==
  BucketsEmpty =>
     /\ pc \in {"test", "returned"}
     /\ submit_log = <<>>
     /\ futures = {}
     /\ completed = {}
     /\ restart_file = NoFile
     /\ status = NoStatus
     /\ free_cores = None
     /\ free_gpus = None
     /\ tasks_per_job = tpj_list
     /\ gen_task_arg_list = <<>>
     /\ warnings = <<>>
     /\ error = "none"

\* returned from a manager without tasks whose tasks_per_job list is unused
C24_Witness ==
  /\ BucketsEmpty
  /\ pc = "returned"
  /\ tasks_per_job # <<>>
  /\ InvalidConfig

\* C25: every job handed to the executor runs in the directory the rule
\* gives: the task_dir itself when it is absolute; base_out_dir/task_dir when
\* it is relative and base_out_dir is set, launch_dir/task_dir when it is
\* not; without a task_dir, base_out_dir/str(task_id) or
\* launch_dir/str(task_id); and that directory was created before the
\* executor's submit was called.
WorkdirRule(task, task_dir, base_set) ==
  LET root == IF base_set THEN out_dir ELSE launch_dir
  IN IF task_dir # NoPath /\ is_absolute(task_dir) THEN task_dir
     ELSE IF task_dir # NoPath THEN root \o task_dir
     ELSE root \o <<ToString(task)>>

C25_Workdir ==
  \A k \in 1..Len(submit_log) :
    LET fut == submit_log[k]
        js == fut.job_spec
    IN /\ js.cwd = WorkdirRule(fut.task, PathOf(js.task_dir), js.base_out_dir)
       /\ fut.workdir = js.cwd
       /\ \E j \in 1..Len(fut.calls) :
            /\ fut.calls[j] = [call |-> "executor.submit", cwd |-> js.cwd]
            /\ \E i \in 1..(j - 1) :
                 fut.calls[i] = [call |-> "mkdir", path |-> js.cwd]

\* one burst submitted a task with an absolute directory and one with a
\* relative directory under the workflow's out directory
C25_Witness ==
  /\ dirs_given
  /\ Len(submit_log) >= 2
  /\ submit_log[1].job_spec.cwd = <<"/", "scratch", ToString(DirOf(1))>>
  /\ submit_log[2].job_spec.cwd = out_dir \o <<"dirs", ToString(DirOf(2))>>

\* C26: in the CPU-affine and the heterogeneous submission loop a task is
\* handed to the executor only from a state in which tasks_per_job and
\* pending are non-empty and free_cores >= tasks_per_job[0] * cores_per_task,
\* and it is the head of pending; the loop returns to poolexecutor only when
\* one of the three conditions fails, so while all three hold its next step
\* is a submission attempt.
HeadAdmissible ==
  /\ Len(tasks_per_job) > 0
  /\ Len(pending_tasks) > 0
  /\ free_cores >= Head(tasks_per_job) * cores_per_task

InCoreLoop ==
  pc = "submit" /\ submission_strategy \in {"CPUAffine", "Dynopro"}

C26_AdmissionLoop ==
  [][InCoreLoop =>
       /\ submit_log' # submit_log =>
            /\ HeadAdmissible
            /\ submit_log' = Append(submit_log, submit_log'[Len(submit_log')])
            /\ submit_log'[Len(submit_log')].task = Head(pending_tasks)
            /\ pending_tasks' = Tail(pending_tasks)
       /\ pc' = "wait" => ~HeadAdmissible
       /\ HeadAdmissible =>
            \/ Len(submit_log') = Len(submit_log) + 1
            \/ pc' = "raised" /\ error' = "ValueError" /\ InvalidConfig]_vars

\* the heterogeneous loop stopped after a submission because the head no
\* longer fits, with tasks still pending
C26_Witness ==
  /\ submission_strategy = "Dynopro"
  /\ pc = "wait"
  /\ submit_log # <<>>
  /\ Len(pending_tasks) > 0
  /\ Len(tasks_per_job) > 0
  /\ free_cores < Head(tasks_per_job) * cores_per_task

\* C27: every submission made by a submission strategy (CPU-affine,
\* GPU-affine, heterogeneous) adds exactly one future to the in-flight set,
\* adds the task id to running, and lowers the free_cores mirror by
\* tasks_per_job * cores_per_task of the submitted task.
BurstSubmission ==
  pc = "submit" /\ Len(submit_log') = Len(submit_log) + 1

C27_SubmissionEffects ==
  [][BurstSubmission =>
       LET fut == submit_log'[Len(submit_log')]
       IN /\ fut \notin futures
          /\ futures' = futures \cup {fut}
          /\ running_tasks' = running_tasks \cup {fut.task}
          /\ free_cores' =
               free_cores - fut.job_spec.num_tasks * cores_per_task]_vars

\* C28: within one loop iteration the cores (tasks_per_job * cores_per_task)
\* of all tasks submitted in it, admission burst and adaptive refills
\* together, never exceed the free_cores value the probe at the start of the
\* iteration returned; and the free_cores mirror is never negative.
C28_IterationBudget ==
  /\ iteration.probe # None => iteration.spent <= iteration.probe
  /\ free_cores # None => free_cores >= 0

\* C29: whenever an admission predicate is evaluated (the while condition of
\* a submission strategy, the refill test of adaptive processing) a probe
\* has been taken in the running iteration, free_cores and free_gpus hold
\* numbers, and in the strategies that keep a mirror free_cores is that
\* iteration's probe minus the cores submitted in it since.
AdmissionEvaluated == pc \in {"submit", "reap"}

KeepsMirror == submission_strategy # "Dynopro" /\ ~UsesFlatAdaptive

C29_FreshProbe ==
  AdmissionEvaluated =>
     /\ iteration.probe # None
     /\ free_cores # None
     /\ free_gpus # None
     /\ KeepsMirror => free_cores = iteration.probe - iteration.spent

\* an admission test in a later iteration, after a submission made in it
C29_Witness ==
  /\ pc = "submit"
  /\ completed_tasks # <<>>
  /\ iteration.probe # None
  /\ iteration.spent >= 1

\* C30: an iteration of the poolexecutor loop is, in this order, a resource
\* probe, a status emission, one call of the submission strategy and one call
\* of the processing strategy; done (pending and running both empty) is
\* evaluated before the first iteration and after each processing step, and
\* nowhere else: poolexecutor returns only from that evaluation.
LoopOrder ==
  {<<"test", "check_resources">>, <<"test", "returned">>,
   <<"check_resources", "log_progress">>,
   <<"log_progress", "submit">>,
   <<"submit", "wait">>, <<"submit", "raised">>,
   <<"wait", "reap">>,
   <<"reap", "test">>, <<"reap", "raised">>,
   <<"returned", "test">>}

C30_LoopOrder ==
  [][/\ pc' # pc => <<pc, pc'>> \in LoopOrder
     /\ (pc = "test" /\ pc' # pc) =>
          (pc' = "returned" <=> (pending_tasks = <<>> /\ running_tasks = {}))
     /\ pc = "check_resources" =>
          /\ iteration'.probe = free_cores'
          /\ iteration'.probe \in ProbeCores
          /\ status' = status
     /\ pc = "log_progress" =>
          /\ status' = log_progress(M).status
          /\ free_cores' = free_cores
          /\ submit_log' = submit_log
     /\ pc \in {"test", "check_resources", "log_progress", "wait"} =>
          (submit_log' = submit_log /\ completed_tasks' = completed_tasks
             /\ failed_tasks' = failed_tasks)]_vars

\* a second iteration has run its processing step and done was evaluated
\* after it
C30_Witness ==
  /\ pc = "returned"
  /\ Len(completed_tasks) + Len(failed_tasks) = NTasks
  /\ status # NoStatus
  /\ status.completed + status.failed >= 1

\* ------------------------------------------------ claims C31 - C40

\* C31: in the adaptive processing strategy the reaping of one future makes
\* at most one new submission, and makes it only when pending and
\* tasks_per_job are non-empty and free_cores >= tasks_per_job[0] *
\* cores_per_task for the head of pending, which is the task submitted.
RefillStep ==
  /\ pc = "reap"
  /\ future_processing_strategy = "Adaptive"
  /\ submit_log' # submit_log

C31_RefillGuard ==
  [][(pc = "reap" /\ future_processing_strategy = "Adaptive") =>
       /\ Len(submit_log') <= Len(submit_log) + 1
       /\ RefillStep =>
            /\ HeadAdmissible
            /\ submit_log'[Len(submit_log')].task = Head(pending_tasks)
            /\ submit_log'[Len(submit_log')].job_spec.num_tasks =
                 Head(tasks_per_job)]_vars

\* C32: a job submitted by adaptive refill is the job the active submission
\* strategy would build for the same task: handed to the scoped executor of
\* the running poolexecutor call, with the same base output directory, the
\* same builder (homogeneous, or per-resource under the heterogeneous
\* strategy) and the head's tasks_per_job as footprint.
StrategyBuild(task, tpj, task_args, task_dir) ==
  IF submission_strategy = "Dynopro"
  THEN hetero_job_submit("scoped", task, tpj, task_args, task_dir)
  ELSE job_submit("scoped", task, tpj, task_args, task_dir, TRUE)

C32_RefillConstruction ==
  [][RefillStep =>
       submit_log'[Len(submit_log')] =
         StrategyBuild(Head(pending_tasks), Head(tasks_per_job),
                       Head(gen_task_arg_list), PopDir(M))]_vars

\* C33: NonAdaptiveStrategy.process_futures never submits: over its bounded
\* wait and every future it reaps, pending, the args and dirs deques,
\* tasks_per_job and the free_cores / free_gpus mirrors stay as they are and
\* nothing is handed to an executor; the in-flight set and running only
\* shrink, and each task that leaves running is appended to completed or to
\* failed.
InNonAdaptiveProcessing ==
  pc \in {"wait", "reap"} /\ future_processing_strategy = "NonAdaptive"

IterationEnds ==
  pc = "reap" /\ pc' = "test" /\ future_processing_strategy = "NonAdaptive"

C34_EndOfIterationSnapshot ==
  [][(IterationEnds /\ Len(completed_tasks) % write_restart_freq = 0) =>
       restart_file' = create_restart_file(M).restart_file]_vars

\* C35: restart_<|completed|>.dat is written atomically: whenever the process
\* is killed, the file a later process finds under that name is absent, or
\* holds a previous complete record, or the complete new record; bytes that
\* stop in the middle of a record are never found.
C35_AtomicRestartFile ==
  /\ restart_file.task_log # Unreadable
  /\ error # "UnpicklingError"

\* C36: the executor poolexecutor acquired is released on every exit of
\* poolexecutor: it is closed when the loop has drained and poolexecutor
\* returned, and closed when an exception (configuration error, submission
\* error, error while reaping) has propagated out of the loop; it is open
\* only while poolexecutor runs.
C36_ExecutorReleased ==
  /\ pc = "returned" => scoped_executor = "closed"
  /\ pc = "raised" => scoped_executor = "closed"
  /\ pc \notin {"returned", "raised"} => scoped_executor = "open"

\* an exception raised while reaping, after a job had been submitted, left
\* poolexecutor with the executor closed
C36_Witness ==
  /\ pc = "raised"
  /\ error \in {"AttributeError", "IndexError"}
  /\ submit_log # <<>>
  /\ scoped_executor = "closed"

\* ------------------------------------------------ the tasks_per_job argument
\* What a caller can pass as tasks_per_job: None, a real number (held in
\* halves: 3 is 1.5), a list or a numpy array of ints, or something else (a
\* string, a tuple).
TpjReals == 2..(2 * MaxTpj + 1)

\* lists shorter than, as long as and longer than the task list
TpjItems ==
  {<<>>, <<MaxTpj>>, [i \in 1..NTasks |-> 1], [i \in 1..(NTasks + 1) |-> 1]}

TpjArgs ==
  {[kind |-> "None"], [kind |-> "other"]}
    \cup {[kind |-> "real", halves |-> h] : h \in TpjReals}
    \cup {[kind |-> "list", items |-> l] : l \in TpjItems}
    \cup {[kind |-> "ndarray", items |-> <<1, MaxTpj>>]}

\* variant of int_of: rounds to the nearest integer, halves upward
int_rounds(halves) == (halves + 1) \div 2

\* int(value) of a non-negative real: truncation
int_of(halves) == halves \div 2

\* the if / elif chain of __init__ that builds self.tasks_per_job for a
\* manager with n pending tasks; raises TypeError in its else branch
build_tasks_per_job(arg, n) ==
  CASE arg.kind = "None" ->
         [deque |-> [i \in 1..n |-> 1], error |-> "none"]
    [] arg.kind = "real" ->
         [deque |-> [i \in 1..n |-> int_of(arg.halves)], error |-> "none"]
    [] arg.kind \in {"list", "ndarray"} ->
         [deque |-> arg.items, error |-> "none"]
    [] OTHER -> [deque |-> <<>>, error |-> "TypeError"]

\* the manager after __init__ was given the argument held in tpj_list
ConstructFrom(arg) ==
  LET built == build_tasks_per_job(arg, Len(gen_task_list))
      m == Construct(None, NoFile)
  IN IF built.error = "none"
     THEN [m EXCEPT !.tasks_per_job = built.deque]
     ELSE [m EXCEPT !.tasks_per_job = built.deque,
                    !.scoped_executor = "none",
                    !.error = built.error]

\* every argument with every strategy combination; write_restart_freq = 1,
\* no directories.  Here tpj_list is the argument as passed.
TpjInit ==
  /\ dynopro \in BOOLEAN
  /\ adaptive \in BOOLEAN
  /\ strategy_pkg \in (IF adaptive THEN {"matensemble", "src/matensemble"}
                       ELSE {"matensemble"})
  /\ cores_per_task = 1
  /\ gpus_per_task \in (IF dynopro THEN {0} ELSE 0..1)
  /\ nnodes = (IF dynopro THEN 1 ELSE None)
  /\ gpus_per_node = (IF dynopro THEN 1 ELSE None)
  /\ write_restart_freq = 1
  /\ dirs_given = FALSE
  /\ restart_filename = None
  /\ submis_strat = NoOverride
  /\ fut_proc_strat = NoOverride
  /\ tpj_list \in TpjArgs
  /\ StateIs(ConstructFrom(tpj_list))
  /\ completed = {}
  /\ pc = (IF tpj_list.kind = "other" THEN "raised" ELSE "test")

TpjSpec == TpjInit /\ [][Next]_vars

ConfigErrorStep ==
  pc = "submit" /\ pc' = "raised" /\ error' = "ValueError"

C38_FailedAttemptFrame ==
  [][ConfigErrorStep =>
       UNCHANGED <<pending_tasks, gen_task_arg_list, gen_task_dir_list,
                   tasks_per_job, running_tasks, futures>>]_vars

\* C39: every restart snapshot written during a run records four buckets
\* that are pairwise disjoint and together hold exactly the initial tasks;
\* a task whose future came back in the same wait batch and is not yet
\* classified is in its Running bucket, and a task the adaptive refill
\* submitted just before the snapshot is in Running and not in Pending.
SnapshotBuckets(task_log) ==
  <<ToSet(task_log.Completed), task_log.Running, ToSet(task_log.Pending),
    {f[1] : f \in ToSet(task_log.Failed)}>>

C39_SnapshotContents ==
  [][SnapshotWritten =>
       LET b == SnapshotBuckets(restart_file'.task_log)
       IN /\ \A i, j \in 1..4 : i # j => b[i] \cap b[j] = {}
          /\ b[1] \cup b[2] \cup b[3] \cup b[4] = InitialTasks
          /\ Len(restart_file'.task_log.Completed)
               = Cardinality(b[1])
          /\ \A fut \in completed' : fut.task \in b[2]
          /\ submit_log' # submit_log =>
               /\ submit_log'[Len(submit_log')].task \in b[2]
               /\ submit_log'[Len(submit_log')].task \notin b[3]]_vars

\* a snapshot on disk lists as Running a task whose finished future waits in
\* the same batch
C39_Witness ==
  /\ pc = "reap"
  /\ restart_file # NoFile
  /\ \E fut \in completed : fut.task \in restart_file.task_log.Running
  /\ restart_file.task_log.Completed = completed_tasks

\* ------------------------------------------------ C40
\* a task is handed to an executor under the adaptive processing strategy with
\* GPU-bound tasks
GpuAdaptiveSubmission ==
  /\ gpus_per_task > 0
  /\ future_processing_strategy = "Adaptive"
  /\ submit_log' # submit_log

\* the free_gpus mirror is a count once a probe has set it
GpuMirrorNonNegative ==
  (gpus_per_task > 0 /\ future_processing_strategy = "Adaptive"
     /\ free_gpus # None) => free_gpus >= 0

\* C40: with gpus_per_task > 0 and the adaptive processing strategy active, no
\* task is submitted, by the admission burst or by the adaptive refill, while
\* the free_gpus mirror is smaller than tpj_head * gpus_per_task, and the
\* free_gpus mirror never becomes negative.
C40_GpuMirrorGating ==
  [][/\ GpuAdaptiveSubmission =>
          /\ Len(tasks_per_job) > 0
          /\ free_gpus >= Head(tasks_per_job) * gpus_per_task
     /\ GpuMirrorNonNegative']_vars

====
